---- MODULE Spec2Model ----
(***************************************************************************)
(* The campaign save-file patch of fix_campaign.py and the read-only       *)
(* report of verify_changes.py.                                            *)
(*                                                                         *)
(* A Python dict is a function whose DOMAIN is the set of keys it holds,   *)
(* so a missing key is a missing element of the DOMAIN.  A tile keeps the  *)
(* keys some line of the two scripts reads (tile, hex, forces); the other  *)
(* keys of a tile (controlSinceDay, controlSinceSegment, rotation) are     *)
(* carried along unread and are left out.  The campaign document is the    *)
(* ordered sequence of its top-level (key, value) entries, the order a     *)
(* Python dict keeps.                                                      *)
(***************************************************************************)
EXTENDS Integers, Sequences, FiniteSets, TLC

VARIABLES
  file,            \* content of campaign01.json: [entries, whole]
  pc,              \* position of the fix_campaign run
  err,             \* exception that ended the run, "" when none
  data,            \* data: the loaded document (lines 5, 271)
  tiles,           \* tiles = data['tiles'] (line 8)
  filtered_tiles,  \* filtered_tiles (lines 13, 28, 259-268)
  removing,        \* tiles named by the "Removing ..." lines (20, 25)
  report,          \* figures printed by lines 30 and 278-280
  written,         \* number of entries json.dump has written (line 275)
  orig,            \* history: content of the file when the run started
  runs,            \* history: runs of fix_campaign started
  successes,       \* history: runs of fix_campaign that reached line 277
  vres,            \* outcome of the last verify_changes run
  engine           \* the filter/extend step applied to a drawn tile list and patch

vars == <<file, pc, err, data, tiles, filtered_tiles, removing, report,
          written, orig, runs, successes, vres, engine>>

\* ------------------------------------------------------------------ bounds
MaxTiles == 2
MaxRuns == 2
MaxLen == 2

\* ------------------------------------------------------------ tile kinds
Heavy == "botFortificationHeavy"
Light == "botFortificationLight"
Naval == "botNavalBase"
Logistics == "botLogistics"
Airbase == "botAirbase"

\* ------------------------------------------------ the literal added tiles
\* new_heavy_fortifications (fix_campaign.py 33-100)
new_heavy_fortifications ==
  <<
    [tile |-> "botFortificationHeavy", hex |-> [q |-> 8, r |-> 20],
     forces |-> <<[unitType |-> "Artillery_155mm", count |-> 4, label |-> "Atlantic Wall - West Battery"],
                   [unitType |-> "Infantry_42", count |-> 6, label |-> "Coastal Defense Regiment"]>>],
    [tile |-> "botFortificationHeavy", hex |-> [q |-> 15, r |-> 21],
     forces |-> <<[unitType |-> "Artillery_155mm", count |-> 5, label |-> "Festung Europa Heavy Battery"],
                   [unitType |-> "Infantry_42", count |-> 7, label |-> "Fortress Garrison"]>>],
    [tile |-> "botFortificationHeavy", hex |-> [q |-> 22, r |-> 20],
     forces |-> <<[unitType |-> "Artillery_155mm", count |-> 4, label |-> "Central Atlantic Wall"],
                   [unitType |-> "Infantry_42", count |-> 6, label |-> "Bunker Defense"]>>],
    [tile |-> "botFortificationHeavy", hex |-> [q |-> 28, r |-> 21],
     forces |-> <<[unitType |-> "Artillery_155mm", count |-> 5, label |-> "Le Havre Coastal Battery"],
                   [unitType |-> "Infantry_42", count |-> 7, label |-> "Port Defense Battalion"]>>],
    [tile |-> "botFortificationHeavy", hex |-> [q |-> 35, r |-> 22],
     forces |-> <<[unitType |-> "Artillery_155mm", count |-> 4, label |-> "Eastern Sector Battery"],
                   [unitType |-> "Infantry_42", count |-> 6, label |-> "Coastal Artillery Crew"]>>],
    [tile |-> "botFortificationHeavy", hex |-> [q |-> 42, r |-> 21],
     forces |-> <<[unitType |-> "Artillery_155mm", count |-> 5, label |-> "Far East Atlantic Wall"],
                   [unitType |-> "Infantry_42", count |-> 7, label |-> "Elite Coastal Defense"]>>]
  >>

\* new_light_fortifications (fix_campaign.py 103-159)
new_light_fortifications ==
  <<
    [tile |-> "botFortificationLight", hex |-> [q |-> 10, r |-> 23],
     forces |-> <<[unitType |-> "Infantry_42", count |-> 7, label |-> "Secondary Defense Line West"],
                   [unitType |-> "Artillery_105mm", count |-> 2, label |-> "Support Artillery"]>>],
    [tile |-> "botFortificationLight", hex |-> [q |-> 18, r |-> 24],
     forces |-> <<[unitType |-> "Infantry_42", count |-> 8, label |-> "Inland Defense Position"],
                   [unitType |-> "Artillery_105mm", count |-> 3, label |-> "Field Artillery"]>>],
    [tile |-> "botFortificationLight", hex |-> [q |-> 25, r |-> 23],
     forces |-> <<[unitType |-> "Infantry_42", count |-> 7, label |-> "Reserve Defense Battalion"],
                   [unitType |-> "Artillery_105mm", count |-> 2, label |-> "Mobile Artillery"]>>],
    [tile |-> "botFortificationLight", hex |-> [q |-> 32, r |-> 24],
     forces |-> <<[unitType |-> "Infantry_42", count |-> 8, label |-> "Fallback Position East"],
                   [unitType |-> "Artillery_105mm", count |-> 3, label |-> "Defensive Artillery"]>>],
    [tile |-> "botFortificationLight", hex |-> [q |-> 40, r |-> 25],
     forces |-> <<[unitType |-> "Infantry_42", count |-> 6, label |-> "Eastern Inland Defense"],
                   [unitType |-> "Artillery_105mm", count |-> 2, label |-> "Support Guns"]>>]
  >>

\* new_naval_bases (fix_campaign.py 162-207)
new_naval_bases ==
  <<
    [tile |-> "botNavalBase", hex |-> [q |-> 10, r |-> 20],
     forces |-> <<[unitType |-> "Destroyer", count |-> 4, label |-> "Cherbourg Naval Squadron"],
                   [unitType |-> "Patrol_Boat", count |-> 5, label |-> "Coastal Patrol"],
                   [unitType |-> "Infantry_42", count |-> 7, label |-> "Cherbourg Garrison"]>>],
    [tile |-> "botNavalBase", hex |-> [q |-> 20, r |-> 21],
     forces |-> <<[unitType |-> "Destroyer", count |-> 3, label |-> "Western Kriegsmarine"],
                   [unitType |-> "Patrol_Boat", count |-> 6, label |-> "Harbor Defense Boats"],
                   [unitType |-> "Infantry_42", count |-> 6, label |-> "Port Security Battalion"]>>],
    [tile |-> "botNavalBase", hex |-> [q |-> 28, r |-> 20],
     forces |-> <<[unitType |-> "Destroyer", count |-> 5, label |-> "Le Havre Naval Group"],
                   [unitType |-> "Patrol_Boat", count |-> 4, label |-> "Patrol Squadron"],
                   [unitType |-> "Infantry_42", count |-> 8, label |-> "Le Havre Kriegsmarine Garrison"]>>],
    [tile |-> "botNavalBase", hex |-> [q |-> 40, r |-> 21],
     forces |-> <<[unitType |-> "Destroyer", count |-> 4, label |-> "Eastern Naval Squadron"],
                   [unitType |-> "Patrol_Boat", count |-> 5, label |-> "Coastal Defense Flotilla"],
                   [unitType |-> "Infantry_42", count |-> 7, label |-> "Eastern Port Garrison"]>>]
  >>

\* new_bases (fix_campaign.py 212-255)
new_bases ==
  <<
    [tile |-> "botLogistics", hex |-> [q |-> 44, r |-> 23],
     forces |-> <<[unitType |-> "Supply_Truck", count |-> 5, label |-> "Northeast Supply Hub"],
                   [unitType |-> "Infantry_42", count |-> 4, label |-> "Depot Security"]>>],
    [tile |-> "botAirbase", hex |-> [q |-> 47, r |-> 25],
     forces |-> <<[unitType |-> "Interceptor", count |-> 5, label |-> "Northeast Air Defense"],
                   [unitType |-> "Bomber", count |-> 2, label |-> "Strike Squadron"]>>],
    [tile |-> "botLogistics", hex |-> [q |-> 8, r |-> 31],
     forces |-> <<[unitType |-> "Panzer_IV", count |-> 4, label |-> "Southwest Armored Reserve"],
                   [unitType |-> "Infantry_Elite", count |-> 6, label |-> "Elite Battalion"]>>],
    [tile |-> "botAirbase", hex |-> [q |-> 11, r |-> 33],
     forces |-> <<[unitType |-> "Interceptor", count |-> 4, label |-> "Southwest Air Wing"],
                   [unitType |-> "Bomber", count |-> 3, label |-> "Tactical Bombers"]>>]
  >>

\* ------------------------------------------------------- dict accessors
\* tile.get('tile', '') (fix_campaign.py line 15)
tile_type(tile) == IF "tile" \in DOMAIN tile THEN tile.tile ELSE ""

\* A mutant of hex_r: the default for a missing r falls inside a removal range.
hex_r_default18(tile) ==
  IF "hex" \in DOMAIN tile /\ "r" \in DOMAIN tile.hex THEN tile.hex.r ELSE 18

\* tile.get('hex', {}).get('r', 0) (fix_campaign.py line 16)
hex_r(tile) ==
  IF "hex" \in DOMAIN tile /\ "r" \in DOMAIN tile.hex THEN tile.hex.r ELSE 0

\* tile['hex']['q'] raises KeyError unless both keys are there (lines 20, 25)
HasHexQ(tile) == "hex" \in DOMAIN tile /\ "q" \in DOMAIN tile.hex

\* t['hex']['r'] raises KeyError unless both keys are there (verify_changes.py)
HasHexR(tile) == "hex" \in DOMAIN tile /\ "r" \in DOMAIN tile.hex

\* ------------------------------------------------------- removal rules
\* The two `if` tests of the loop as data: kind, lowest r, highest r.
removalRules ==
  << [kindMatch |-> Heavy, rMin |-> 18, rMax |-> 23],
     [kindMatch |-> Light, rMin |-> 25, rMax |-> 29] >>

\* A mutant of RuleMatches: the lower bound is exclusive.
RuleMatchesExclusiveMin(tile, rule) ==
  /\ tile_type(tile) = rule.kindMatch
  /\ rule.rMin < hex_r(tile)
  /\ hex_r(tile) <= rule.rMax

\* A mutant of RuleMatches: the upper bound is exclusive.
RuleMatchesExclusiveMax(tile, rule) ==
  /\ tile_type(tile) = rule.kindMatch
  /\ rule.rMin <= hex_r(tile)
  /\ hex_r(tile) < rule.rMax

\* tile_type == K and lo <= hex_r <= hi (lines 19, 24)
RuleMatches(tile, rule) ==
  /\ tile_type(tile) = rule.kindMatch
  /\ rule.rMin <= hex_r(tile)
  /\ hex_r(tile) <= rule.rMax

\* The tests are tried in order; the first that holds skips the tile.
MatchesAny(tile, rules) == \E k \in 1..Len(rules) : RuleMatches(tile, rules[k])

\* A mutant of KeepTile: the survivor is inserted at the front.
KeepTileFront(kept, tile) == <<tile>> \o kept

\* filtered_tiles.append(tile) (line 28)
KeepTile(kept, tile) == Append(kept, tile)

\* The loop of lines 14-28 from tile i on: [ok, kept, removed].  ok is FALSE
\* when the "Removing" line of a matching tile raised KeyError.
RECURSIVE FilterFrom(_, _, _, _, _)
FilterFrom(ts, rules, i, kept, removed) ==
  IF i > Len(ts)
    THEN [ok |-> TRUE, kept |-> kept, removed |-> removed]
    ELSE IF MatchesAny(ts[i], rules)
      THEN IF HasHexQ(ts[i])
        THEN FilterFrom(ts, rules, i + 1, kept, Append(removed, ts[i]))
        ELSE [ok |-> FALSE, kept |-> kept, removed |-> removed]
      ELSE FilterFrom(ts, rules, i + 1, KeepTile(kept, ts[i]), removed)

\* A mutant of FilterTiles: the tiles are removed from the list being
\* iterated, so the tile after a removed one is kept without being tested.
RECURSIVE FilterInPlaceFrom(_, _, _, _, _)
FilterInPlaceFrom(ts, rules, i, kept, removed) ==
  IF i > Len(ts)
    THEN [ok |-> TRUE, kept |-> kept, removed |-> removed]
    ELSE IF MatchesAny(ts[i], rules)
      THEN IF HasHexQ(ts[i])
        THEN FilterInPlaceFrom(ts, rules, i + 2,
               IF i < Len(ts) THEN KeepTile(kept, ts[i + 1]) ELSE kept,
               Append(removed, ts[i]))
        ELSE [ok |-> FALSE, kept |-> kept, removed |-> removed]
      ELSE FilterInPlaceFrom(ts, rules, i + 1, KeepTile(kept, ts[i]), removed)

FilterTilesInPlace(ts, rules) == FilterInPlaceFrom(ts, rules, 1, <<>>, <<>>)

\* filtered_tiles = [] and the loop over all the tiles (lines 13-28).
FilterTiles(ts, rules) == FilterFrom(ts, rules, 1, <<>>, <<>>)

\* The four extends of lines 259-268, in their order.
Additions ==
  new_heavy_fortifications \o new_light_fortifications \o new_naval_bases \o new_bases

\* The patch fix_campaign.py applies.
FixCampaignPatch == [removalRules |-> removalRules, additions |-> Additions]

\* filtered_tiles.extend(...) (lines 259-268): the additions follow the survivors.
ExtendTiles(kept, additions) == kept \o additions

\* ------------------------------------------------------- JSON documents
\* A JSON value at the top level of the document: its type, the tiles it
\* holds when it is an array, and a number standing for an opaque content.
JList(items) == [t |-> "list", items |-> items, v |-> 0]
JOther(type) == [t |-> type, items |-> <<>>, v |-> 0]
JOpaque(type, n) == [t |-> type, items |-> <<>>, v |-> n]
Unset == JOther("unset")

\* key in data
HasKey(d, k) == \E i \in 1..Len(d) : d[i].key = k

\* data[key]
GetItem(d, k) == d[CHOOSE i \in 1..Len(d) : d[i].key = k].val

\* A mutant of SetItem: the key is deleted and inserted again, at the end.
SetItemMovesToEnd(d, k, val) ==
  SelectSeq(d, LAMBDA e : e.key # k) \o <<[key |-> k, val |-> val]>>

\* data[key] = val: a key the dict holds keeps its place (line 271)
SetItem(d, k, val) ==
  IF HasKey(d, k)
    THEN [i \in 1..Len(d) |-> IF d[i].key = k THEN [key |-> k, val |-> val] ELSE d[i]]
    ELSE Append(d, [key |-> k, val |-> val])

\* What `for tile in tiles` followed by tile.get(...) does with each type of
\* value (lines 14-15): iterate the items of an array; raise TypeError for a
\* value that is not iterable; iterate nothing for an empty object or string;
\* raise AttributeError for the str a non-empty object or string yields.
Iteration(val) ==
  CASE val.t = "list" -> "items"
    [] val.t \in {"null", "number", "bool"} -> "TypeError"
    [] val.t \in {"emptyobject", "emptystring"} -> "nothing"
    [] OTHER -> "AttributeError"

\* len(tiles) (lines 30, 279); an empty object or string has length 0.
LenOf(val) == Len(val.items)

\* A mutant of RemovedFigure: the appended tiles are not added back.
RemovedFigureUncorrected(ts, filtered) == LenOf(ts) - Len(filtered)

\* The "Removed" figure of line 279, printed after the extends.
RemovedFigure(ts, filtered) ==
  LenOf(ts) - Len(filtered) + Len(new_heavy_fortifications)
    + Len(new_light_fortifications) + Len(new_naval_bases) + Len(new_bases)

\* The "Added" figure of line 280.
AddedFigure ==
  Len(new_heavy_fortifications) + Len(new_light_fortifications)
    + Len(new_naval_bases) + Len(new_bases)

NoReport == [first |-> -1, total |-> -1, removed |-> -1, added |-> -1]
NoVerify == [status |-> "", total |-> 0, heavy |-> 0, light |-> 0, naval |-> 0,
             bases |-> 0, bad_heavy |-> 0, bad_light |-> 0]
EngineOff == [phase |-> "off"]

Terminal == {"idle", "done", "failed"}

\* ------------------------------------------------ fix_campaign.py, by step
\* Lines 4-5: open the file for reading and parse it.
Load ==
  /\ pc \in Terminal
  /\ runs < MaxRuns
  /\ runs' = runs + 1
  /\ orig' = file
  /\ tiles' = Unset
  /\ filtered_tiles' = <<>>
  /\ removing' = <<>>
  /\ report' = NoReport
  /\ written' = 0
  /\ vres' = NoVerify
  /\ IF file.whole
       THEN data' = file.entries /\ pc' = "loaded" /\ err' = ""
       ELSE data' = <<>> /\ pc' = "failed" /\ err' = "ParseError"
  /\ UNCHANGED <<file, successes, engine>>

\* Line 8: tiles = data['tiles'].
GetTiles ==
  /\ pc = "loaded"
  /\ IF HasKey(data, "tiles")
       THEN tiles' = GetItem(data, "tiles") /\ pc' = "filter" /\ err' = ""
       ELSE tiles' = tiles /\ pc' = "failed" /\ err' = "KeyError:tiles"
  /\ UNCHANGED <<file, data, filtered_tiles, removing, report, written, orig,
                 runs, successes, vres, engine>>

\* Lines 13-30: the filter loop and the first "Removed" line.
FilterLoop ==
  /\ pc = "filter"
  /\ LET how == Iteration(tiles)
         res == FilterTiles(tiles.items, removalRules)
     IN  CASE how \in {"TypeError", "AttributeError"} ->
                /\ pc' = "failed" /\ err' = how
                /\ UNCHANGED <<filtered_tiles, removing, report>>
           [] how = "items" /\ ~res.ok ->
                /\ pc' = "failed" /\ err' = "KeyError:q"
                /\ filtered_tiles' = res.kept
                /\ removing' = res.removed
                /\ UNCHANGED report
           [] OTHER ->
                /\ pc' = "extend" /\ err' = ""
                /\ filtered_tiles' = res.kept
                /\ removing' = res.removed
                /\ report' = [report EXCEPT !.first = LenOf(tiles) - Len(res.kept)]
  /\ UNCHANGED <<file, data, tiles, written, orig, runs, successes, vres, engine>>

\* Lines 257-268: the four extends.
Extend ==
  /\ pc = "extend"
  /\ filtered_tiles' = ExtendTiles(filtered_tiles, Additions)
  /\ pc' = "assign"
  /\ UNCHANGED <<file, err, data, tiles, removing, report, written, orig, runs,
                 successes, vres, engine>>

\* Line 271: data['tiles'] = filtered_tiles.
AssignTiles ==
  /\ pc = "assign"
  /\ data' = SetItem(data, "tiles", JList(filtered_tiles))
  /\ pc' = "write"
  /\ UNCHANGED <<file, err, tiles, filtered_tiles, removing, report, written,
                 orig, runs, successes, vres, engine>>

\* Line 274: open(..., 'w') empties the file before anything is written.
OpenWrite ==
  /\ pc = "write"
  /\ file' = [entries |-> <<>>, whole |-> FALSE]
  /\ written' = 0
  /\ pc' = "dump"
  /\ UNCHANGED <<err, data, tiles, filtered_tiles, removing, report, orig, runs,
                 successes, vres, engine>>

\* Line 274: open(..., 'w') raises OSError; the file is not touched.
OpenWriteFails ==
  /\ pc = "write"
  /\ pc' = "failed"
  /\ err' = "OSError"
  /\ UNCHANGED <<file, data, tiles, filtered_tiles, removing, report, written,
                 orig, runs, successes, vres, engine>>

\* Line 275: json.dump writes the document piece by piece, here one
\* top-level entry at a time; the file is whole once the last is written
\* and the `with` block has closed it.
DumpEntry ==
  /\ pc = "dump"
  /\ written < Len(data)
  /\ written' = written + 1
  /\ file' = [entries |-> Append(file.entries, data[written + 1]),
              whole |-> (written + 1 = Len(data))]
  /\ pc' = IF written + 1 = Len(data) THEN "report" ELSE "dump"
  /\ UNCHANGED <<err, data, tiles, filtered_tiles, removing, report, orig, runs,
                 successes, vres, engine>>

\* Line 275: a write raises (OSError, UnicodeEncodeError) part of the way.
DumpFails ==
  /\ pc = "dump"
  /\ pc' = "failed"
  /\ err' = "WriteError"
  /\ UNCHANGED <<file, data, tiles, filtered_tiles, removing, report, written,
                 orig, runs, successes, vres, engine>>

\* Lines 277-280: the final report.
FinalReport ==
  /\ pc = "report"
  /\ report' = [report EXCEPT !.total = Len(filtered_tiles),
                              !.removed = RemovedFigure(tiles, filtered_tiles),
                              !.added = AddedFigure]
  /\ successes' = successes + 1
  /\ pc' = "done"
  /\ UNCHANGED <<file, err, data, tiles, filtered_tiles, removing, written, orig,
                 runs, vres, engine>>

\* --------------------------------------------------- verify_changes.py
IsBase(t) == tile_type(t) \in {Logistics, Airbase}

\* The subscripts t['hex']['q'] and t['hex']['r'] that verify_changes.py
\* evaluates for tile t, one of which raises KeyError: the comprehensions of
\* lines 14, 22, 63, 64 read r of every heavy and light fortification, the
\* prints of lines 17 and 25 read q of those the query kept, line 42 reads q
\* and r of every naval base, lines 48-49 and 54-55 read q of every
\* logistics or air base and r of those whose q is in the range.
VerifyRaises(t) ==
  \/ tile_type(t) \in {Heavy, Light} /\ ~HasHexR(t)
  \/ tile_type(t) = Heavy /\ HasHexR(t) /\ 20 <= t.hex.r /\ t.hex.r <= 22 /\ ~HasHexQ(t)
  \/ tile_type(t) = Light /\ HasHexR(t) /\ 23 <= t.hex.r /\ t.hex.r <= 25 /\ ~HasHexQ(t)
  \/ tile_type(t) = Naval /\ (~HasHexQ(t) \/ ~HasHexR(t))
  \/ IsBase(t) /\ ~HasHexQ(t)
  \/ IsBase(t) /\ HasHexQ(t) /\ ~HasHexR(t)
       /\ \/ 42 <= t.hex.q /\ t.hex.q <= 48
          \/ 6 <= t.hex.q /\ t.hex.q <= 12

KindIn(t, kind, lo, hi) ==
  tile_type(t) = kind /\ HasHexR(t) /\ lo <= t.hex.r /\ t.hex.r <= hi

BaseIn(t, qlo, qhi, rlo, rhi) ==
  /\ IsBase(t) /\ HasHexQ(t) /\ HasHexR(t)
  /\ qlo <= t.hex.q /\ t.hex.q <= qhi
  /\ rlo <= t.hex.r /\ t.hex.r <= rhi

\* len of the list comprehension for a kind and a range of r.
CountKind(ts, kind, lo, hi) ==
  Cardinality({i \in 1..Len(ts) : KindIn(ts[i], kind, lo, hi)})

\* len of the list comprehension for the bases of a region.
CountBases(ts, qlo, qhi, rlo, rhi) ==
  Cardinality({i \in 1..Len(ts) : BaseIn(ts[i], qlo, qhi, rlo, rhi)})

\* The figures the report prints for a tile list no subscript fails on.
Summary(ts) ==
  [status |-> "ok",
   total |-> Len(ts),
   heavy |-> CountKind(ts, Heavy, 20, 22),
   light |-> CountKind(ts, Light, 23, 25),
   naval |-> Cardinality({i \in 1..Len(ts) : tile_type(ts[i]) = Naval}),
   bases |-> CountBases(ts, 42, 48, 22, 26) + CountBases(ts, 6, 12, 30, 33),
   bad_heavy |-> CountKind(ts, Heavy, 18, 19),
   bad_light |-> CountKind(ts, Light, 26, 29)]

Failed(status) == [NoVerify EXCEPT !.status = status]

\* One run of verify_changes.py on the file as it is.
VerifyOutcome(f) ==
  IF ~f.whole THEN Failed("ParseError")
  ELSE IF ~HasKey(f.entries, "tiles") THEN Failed("KeyError:tiles")
  ELSE LET val == GetItem(f.entries, "tiles")
           how == Iteration(val)
       IN  CASE how = "TypeError" -> Failed("TypeError")
             [] how = "AttributeError" -> Failed("AttributeError")
             [] how = "nothing" -> Summary(<<>>)
             [] OTHER ->
                  IF \E i \in 1..Len(val.items) : VerifyRaises(val.items[i])
                    THEN Failed("KeyError")
                    ELSE Summary(val.items)

\* verify_changes.py, run between two runs of fix_campaign.py.
Verify ==
  /\ pc \in Terminal
  /\ vres.status = ""
  /\ vres' = VerifyOutcome(file)
  /\ UNCHANGED <<file, pc, err, data, tiles, filtered_tiles, removing, report,
                 written, orig, runs, successes, engine>>

\* ------------------------------------------------------------- inputs
SeqsUpTo(S, n) == UNION {[1..k -> S] : k \in 0..n}

OneForce == <<[unitType |-> "Infantry_42", count |-> 3, label |-> "Garrison"]>>

\* Tiles of a campaign file given to the scripts: whole tiles in and out of
\* the removal ranges, and tiles with one of their keys missing.
RunTiles ==
  {[tile |-> k, hex |-> [q |-> 7, r |-> r], forces |-> OneForce] :
      k \in {Heavy, Light}, r \in {20, 25}}
  \cup {[tile |-> Naval, hex |-> [q |-> 7, r |-> 20], forces |-> OneForce],
        [tile |-> Heavy, hex |-> [q |-> 7, r |-> 20]],
        [tile |-> Heavy, forces |-> OneForce],
        [tile |-> Heavy, hex |-> [r |-> 20], forces |-> OneForce],
        [tile |-> Light, hex |-> [r |-> 20], forces |-> OneForce],
        [tile |-> Heavy, hex |-> [q |-> 7], forces |-> OneForce],
        [hex |-> [q |-> 7, r |-> 20], forces |-> OneForce]}

\* Values of the tiles key: arrays of tiles, and values that are no array.
TilesValues ==
  {JList(ts) : ts \in SeqsUpTo(RunTiles, MaxTiles)}
  \cup {JOther(type) : type \in {"null", "number", "emptyobject", "emptystring",
                                 "object", "string"}}

Name == [key |-> "name", val |-> JOpaque("string", 1)]
Day == [key |-> "day", val |-> JOpaque("number", 2)]

\* Campaign documents: the tiles key before, between and after two opaque
\* keys, and a document without it.
Documents ==
  {<<Name, Day>>}
  \cup UNION {{<<[key |-> "tiles", val |-> tv], Name, Day>>,
               <<Day, [key |-> "tiles", val |-> tv], Name>>,
               <<Name, Day, [key |-> "tiles", val |-> tv]>>} : tv \in TilesValues}

\* The state before either script has run on campaign file content f.
Idle(f) ==
  /\ file = f
  /\ pc = "idle"
  /\ err = ""
  /\ data = <<>>
  /\ tiles = Unset
  /\ filtered_tiles = <<>>
  /\ removing = <<>>
  /\ report = NoReport
  /\ written = 0
  /\ orig = f
  /\ runs = 0
  /\ successes = 0
  /\ vres = NoVerify

Init ==
  /\ \E d \in Documents : Idle([entries |-> d, whole |-> TRUE])
  /\ engine = EngineOff

Next ==
  \/ Load
  \/ GetTiles
  \/ FilterLoop
  \/ Extend
  \/ AssignTiles
  \/ OpenWrite
  \/ OpenWriteFails
  \/ DumpEntry
  \/ DumpFails
  \/ FinalReport
  \/ Verify

Spec == Init /\ [][Next]_vars

\* ------------------------------------------- the filter/extend step alone
\* The loop and the extends applied to a tile list under a patch: the
\* resulting tiles, the tiles the loop skipped and the tiles appended; ok
\* is FALSE when the loop raised.
ApplyPatch(ts, patch) ==
  LET res == FilterTiles(ts, patch.removalRules)
  IN  IF res.ok
        THEN [ok |-> TRUE, tiles |-> ExtendTiles(res.kept, patch.additions),
              removed |-> res.removed, added |-> patch.additions]
        ELSE [ok |-> FALSE, tiles |-> <<>>, removed |-> res.removed, added |-> <<>>]

EngineRadii == {0, 17, 18, 23, 24, 25, 29, 30}

\* Tiles at, inside and outside the bounds of the removal ranges, and tiles
\* with hex, hex.r or hex.q missing.
EngineTiles ==
  {[tile |-> k, hex |-> [q |-> 7, r |-> r]] : k \in {Heavy, Light, Naval}, r \in EngineRadii}
  \cup {[tile |-> k] : k \in {Heavy, Light, Naval}}
  \cup {[tile |-> k, hex |-> [q |-> 7]] : k \in {Heavy, Light, Naval}}
  \cup {[tile |-> Heavy, hex |-> [r |-> 18]], [tile |-> Light, hex |-> [r |-> 29]]}

\* Removal rule lists: none, those of fix_campaign.py, and rules whose
\* range holds 0.
EngineRules ==
  {<<>>,
   removalRules,
   <<[kindMatch |-> Heavy, rMin |-> 0, rMax |-> 17]>>,
   <<[kindMatch |-> Light, rMin |-> 0, rMax |-> 30],
     [kindMatch |-> Heavy, rMin |-> 18, rMax |-> 23]>>}

Patches ==
  {[removalRules |-> rs, additions |-> as] : rs \in EngineRules, as \in {<<>>, Additions}}

NoResult == [ok |-> FALSE, tiles |-> <<>>, removed |-> <<>>, added |-> <<>>]

EngineInit ==
  /\ Idle([entries |-> <<Name, Day>>, whole |-> TRUE])
  /\ engine \in {[phase |-> "drawn", input |-> ts, patch |-> p,
                  result |-> NoResult, first |-> NoResult] :
                    ts \in SeqsUpTo(EngineTiles, MaxLen), p \in Patches}

\* The patch is applied to the drawn tile list.
EngineApply ==
  /\ engine.phase = "drawn"
  /\ engine' = [engine EXCEPT !.phase = "applied",
                              !.result = ApplyPatch(engine.input, engine.patch)]
  /\ UNCHANGED <<file, pc, err, data, tiles, filtered_tiles, removing, report,
                 written, orig, runs, successes, vres>>

\* The same patch is applied to the tiles its first application returned.
EngineReapply ==
  /\ engine.phase = "applied"
  /\ engine.result.ok
  /\ engine' = [engine EXCEPT !.phase = "reapplied",
                              !.input = engine.result.tiles,
                              !.first = engine.result,
                              !.result = ApplyPatch(engine.result.tiles, engine.patch)]
  /\ UNCHANGED <<file, pc, err, data, tiles, filtered_tiles, removing, report,
                 written, orig, runs, successes, vres>>

EngineNext ==
  \/ EngineApply
  \/ EngineReapply

SpecEngine == EngineInit /\ [][EngineNext]_vars

\* ---------------------------------------------------------- properties
\* The value of the tiles key of a whole file that has one.
TilesOf(f) == GetItem(f.entries, "tiles")

HasTiles(f) == f.whole /\ HasKey(f.entries, "tiles")

Occurrences(s, x) == Cardinality({i \in 1..Len(s) : s[i] = x})

\* The survivors of the step's result: its tiles without the appended ones.
Survivors(result) == SubSeq(result.tiles, 1, Len(result.tiles) - Len(result.added))

Applied == engine.phase = "applied" /\ engine.result.ok

\* C1: after a run of fix_campaign the file holds as many tiles as before,
\* minus the tiles the loop skipped, plus the 19 appended; the "Removed"
\* figures of lines 30 and 279 are the number of tiles skipped and the
\* "Added" figure is 19.
C1_CountAndFigures ==
  pc = "done" =>
    /\ TilesOf(file).t = "list"
    /\ Len(TilesOf(file).items) = LenOf(TilesOf(orig)) - Len(removing) + 19
    /\ report.total = Len(TilesOf(file).items)
    /\ report.first = Len(removing)
    /\ report.removed = Len(removing)
    /\ report.added = 19

C1_Witness ==
  /\ pc = "done"
  /\ Len(removing) = 1
  /\ LenOf(TilesOf(orig)) = 2
  /\ report.removed = 1

\* What the claim C2 says is removed: the tile has a kind and an r, and
\* some rule names the kind with r between its bounds, bounds included.
C2_InSomeRule(t, rules) ==
  /\ "tile" \in DOMAIN t
  /\ HasHexR(t)
  /\ \E k \in 1..Len(rules) :
       /\ t.tile = rules[k].kindMatch
       /\ rules[k].rMin <= t.hex.r
       /\ t.hex.r <= rules[k].rMax

C2_InFixCampaignRanges(t) ==
  /\ "tile" \in DOMAIN t
  /\ HasHexR(t)
  /\ \/ t.tile = "botFortificationHeavy" /\ t.hex.r \in 18..23
     \/ t.tile = "botFortificationLight" /\ t.hex.r \in 25..29

C2_RemovedExactly(t, condition) ==
  LET n == Occurrences(engine.input, t)
  IN  /\ Occurrences(engine.result.removed, t) = IF condition THEN n ELSE 0
      /\ Occurrences(Survivors(engine.result), t) = IF condition THEN 0 ELSE n

\* C2: a tile that has an r is removed exactly when some rule names its
\* kind and holds its r between its bounds, bounds included; under the rules
\* of fix_campaign every tile is removed exactly when it is a heavy
\* fortification with r in 18..23 or a light one with r in 25..29.
C2_RemovedIffInRange ==
  Applied =>
    \A i \in 1..Len(engine.input) :
      LET t == engine.input[i]
      IN  /\ HasHexR(t) =>
                C2_RemovedExactly(t, C2_InSomeRule(t, engine.patch.removalRules))
          /\ engine.patch.removalRules = removalRules =>
                C2_RemovedExactly(t, C2_InFixCampaignRanges(t))

C2_Witness ==
  /\ Applied
  /\ engine.patch = FixCampaignPatch
  /\ engine.input = <<[tile |-> Heavy, hex |-> [q |-> 7, r |-> 23]],
                      [tile |-> Light, hex |-> [q |-> 7, r |-> 24]]>>
  /\ engine.result.removed = <<[tile |-> Heavy, hex |-> [q |-> 7, r |-> 23]]>>

\* The input positions of the tiles that were not removed.
C3_Kept == {i \in 1..Len(engine.input) :
              Occurrences(engine.result.removed, engine.input[i]) = 0}

\* C3: the surviving tiles are the input tiles that were not removed, in
\* their input order; the additions follow them in the order given, under
\* the patch of fix_campaign the 6 heavy fortifications, the 5 light ones,
\* the 4 naval bases and the 4 logistics and air bases, none of them removed.
C3_OrderPreserved ==
  Applied =>
    LET out == engine.result.tiles
        n == Cardinality(C3_Kept)
    IN  /\ Len(out) = n + Len(engine.patch.additions)
        /\ \A i \in C3_Kept :
             out[Cardinality({k \in C3_Kept : k <= i})] = engine.input[i]
        /\ \A j \in 1..Len(engine.patch.additions) :
             out[n + j] = engine.patch.additions[j]
        /\ engine.patch = FixCampaignPatch =>
             /\ Len(out) = n + 19
             /\ SubSeq(out, n + 1, n + 6) = new_heavy_fortifications
             /\ SubSeq(out, n + 7, n + 11) = new_light_fortifications
             /\ SubSeq(out, n + 12, n + 15) = new_naval_bases
             /\ SubSeq(out, n + 16, n + 19) = new_bases

C3_Witness ==
  /\ Applied
  /\ engine.patch = FixCampaignPatch
  /\ Len(engine.input) = 2
  /\ engine.input[1] # engine.input[2]
  /\ C3_Kept = {1, 2}

C5_FailedWriteLeavesFile ==
  (pc = "failed" /\ err = "WriteError") => file = orig

\* A whole document whose tiles key is missing or holds no array.
StructurallyInvalid(f) ==
  f.whole /\ (HasKey(f.entries, "tiles") => TilesOf(f).t # "list")

\* C6 as stated: on a structurally invalid campaign the run never opens the
\* file for writing and the file keeps its content.
C6_InvalidCampaignNeverWritten ==
  StructurallyInvalid(orig) => (file = orig /\ pc \notin {"dump", "report", "done"})

\* C7 as stated: when the tiles key holds an array of records, no tile makes
\* fix_campaign raise, and none makes verify_changes raise.
C7_MissingFieldsNeverFail ==
  /\ (HasTiles(orig) /\ TilesOf(orig).t = "list") => err # "KeyError:q"
  /\ (HasTiles(file) /\ TilesOf(file).t = "list") => vres.status # "KeyError"

\* The entries of a document other than tiles, each with its position.
C8_Others(d) == {<<i, d[i]>> : i \in {k \in 1..Len(d) : d[k].key # "tiles"}}

\* C8: after a run the file holds the keys it held, in the same order, and
\* every key other than tiles has the value it had.
C8_OtherKeysPreserved ==
  pc = "done" =>
    /\ Len(file.entries) = Len(orig.entries)
    /\ \A i \in 1..Len(orig.entries) : file.entries[i].key = orig.entries[i].key
    /\ C8_Others(file.entries) = C8_Others(orig.entries)

C8_Witness ==
  /\ pc = "done"
  /\ Len(orig.entries) = 3
  /\ orig.entries[2].key = "tiles"
  /\ TilesOf(file) # TilesOf(orig)

\* C9: the removal rules alone, applied to what their first application
\* returned, remove nothing and return the tiles they were given.
C9_RemovalIdempotent ==
  (engine.phase = "reapplied" /\ engine.patch.additions = <<>>) =>
    /\ engine.result.ok
    /\ engine.result.removed = <<>>
    /\ engine.result.tiles = engine.input
    /\ engine.result.tiles = engine.first.tiles

C9_Witness ==
  /\ engine.phase = "reapplied"
  /\ engine.patch.additions = <<>>
  /\ engine.first.removed # <<>>
  /\ engine.first.tiles # <<>>

C10_HeavyInRange(ts) ==
  Cardinality({i \in 1..Len(ts) :
     /\ "tile" \in DOMAIN ts[i] /\ ts[i].tile = "botFortificationHeavy"
     /\ HasHexR(ts[i]) /\ ts[i].hex.r \in 18..23})

\* C10: after every run that succeeded the file holds exactly 6 heavy
\* fortifications with r in 18..23; a run that succeeded after another
\* removes exactly 7 tiles, the 6 heavy fortifications and the light one at
\* r 25 the run before appended, appends 19, and leaves 12 tiles more.
C10_RerunGrowsByTwelve ==
  pc = "done" =>
    /\ C10_HeavyInRange(TilesOf(file).items) = 6
    /\ successes >= 2 =>
         /\ Len(removing) = 7
         /\ SubSeq(removing, 1, 6) = new_heavy_fortifications
         /\ removing[7] = new_light_fortifications[5]
         /\ removing[7].hex.r = 25
         /\ report.added = 19
         /\ Len(TilesOf(file).items) = Len(TilesOf(orig).items) + 12

C10_Witness ==
  /\ pc = "done"
  /\ successes = 2
  /\ Len(TilesOf(orig).items) = 21
  /\ Len(TilesOf(file).items) = 33
====
